---- MODULE Spec2Model ----
(***************************************************************************)
(* Model of infra/scheduler.py: SchedulerManager, its tick loop (_runner)  *)
(* and its retrying executions (_execute wrapped by tenacity's @retry);    *)
(* of infra/repo.py: the JSON store of the settings and of the groups; and *)
(* of handlers/admin_commands.py: the admin panel that writes the store;   *)
(* of infra/runner.py: run_with_shutdown and its cleanup callbacks; and of *)
(* core/bot_manager.py: BotManager.start and stop as main.py drives them.  *)
(*                                                                         *)
(* Spec is the scheduler, PanelSpec the admin panel on its own, PolicySpec *)
(* the admin panel next to the tick loop, FaultSpec the scheduler with a   *)
(* tick loop that can raise, TickSpec the tick loop over any registry,     *)
(* LiveSpec the scheduler under fairness, DeskSpec the admin panel of      *)
(* several users, StoreSpec the repository on its own, ShutdownSpec the    *)
(* shutdown runner and BotSpec the bot manager.                            *)
(*                                                                         *)
(* The program is single-threaded asyncio: the code between two awaits of  *)
(* a task runs atomically.  start(), stop() and add_interval_job() hold    *)
(* no await, so each is one step.  One iteration of _runner (the while     *)
(* test, the read of the clock, the for loop) up to `await sleep(1)` is    *)
(* one step.  An execution task suspends in the action (`await            *)
(* job.coro()`) and in tenacity's backoff sleep.  Task.cancel() only       *)
(* requests a cancellation: the CancelledError is thrown into the task at  *)
(* its next step.                                                          *)
(***************************************************************************)
EXTENDS Integers, Sequences, FiniteSets, TLC

\* ---------------------------------------------------------------- bounds
MaxTasks == 2         \* execution tasks created in one behaviour
MaxCalls == 3         \* calls of start, stop and add_interval_job in one behaviour

\* --------------------------------------------------- program constants
MinIntervalSeconds == 60   \* max(60, ...) in add_interval_job
SecondsPerMinute == 60     \* minutes * 60 in add_interval_job
MaxAttempts == 5           \* stop_after_attempt(5)
WaitMultiplier == 1        \* wait_random_exponential(multiplier=1, ...)
WaitMax == 60              \* wait_random_exponential(..., max=60)
TickSeconds == 1           \* asyncio.sleep(1) in _runner

\* ------------------------------------------------------------- inputs
Names == {"A", "B"}                 \* job names given to add_interval_job
MinutesIn == {-1, 0, 1, 2}          \* minutes given to add_interval_job
\* the instants at which the clock is observed: two consecutive seconds, and
\* one minute (the shortest interval of a job) after the first
Instants == {0, 1, 60}

VARIABLES
    now,            \* the UTC clock, in seconds
    utcoffset,      \* the offset of the host's local time from UTC, in seconds
    jobs,           \* self._jobs: name -> _Job record
    order,          \* insertion order of the keys of self._jobs
    running,        \* self._running
    loop_task,      \* self._loop_task: index into loops, 0 for None
    loops,          \* every tick-loop task ever created by start()
    tasks,          \* every execution task ever created by _runner
    stop_requested, \* history: stop() was called and no start() came after
    calls,          \* history: number of calls of the management API so far
    settings,       \* Repo._data["settings"]: a dict, key -> value
    groups,         \* Repo._data["groups"]: group id -> dict of its fields
    awaiting,       \* bot_data["admin_ctx"].awaiting, <<>> for None
    reply,          \* the last message the admin panel sent or edited
    callback_user,  \* history: the user whose callback query was handled last
    stamp_clock,    \* the UTC clock as repo.py reads it for its stamps
    closer,         \* run_with_shutdown: its _Closer and its position
    bot             \* BotManager and the application it drives

\* the state of the JSON repository and of the admin panel
store == <<settings, groups, awaiting, reply>>

vars == <<now, utcoffset, jobs, order, running, loop_task, loops, tasks,
          stop_requested, calls, settings, groups, awaiting, reply, callback_user,
          stamp_clock, closer, bot>>

Max(a, b) == IF a >= b THEN a ELSE b
Min(a, b) == IF a <= b THEN a ELSE b

RECURSIVE Pow(_, _)
Pow(b, e) == IF e = 0 THEN 1 ELSE b * Pow(b, e - 1)

\* states of an asyncio task that has not terminated
Pending == {"new", "action", "backoff"}
\* "sleeping" for a tick loop suspended in asyncio.sleep(1)
LoopPending == {"new", "sleeping"}

\* Task.cancel(): a request, ignored by a task that is done; the task is made
\* runnable whatever it waits for
Cancel(t) == IF t.st \in Pending \cup LoopPending
             THEN [t EXCEPT !.cancel = TRUE, !.wake = 0]
             ELSE t

\* asyncio.sleep(d) called at time now: the time at which the timer fires, 0
\* standing for a timer that has fired (sleep(0) only yields)
Sleep(d) == IF d = 0 THEN 0 ELSE now + d

\* the timer of task t as the event loop sees it at time at
Fired(t, at) == IF t.wake <= at THEN [t EXCEPT !.wake = 0] ELSE t

\* the local variable `now` of a _runner that has not read the clock yet, or
\* whose frame is gone
Unbound == 0 - 1

\* a _now() that reads the host's local wall clock
_now_local == now + utcoffset

\* SchedulerManager._now: datetime.now(timezone.utc), an aware datetime;
\* aware datetimes are compared and subtracted by their UTC instant
_now == now

\* _Job(name, interval_seconds, coro, task=None, next_run)
_Job(seconds, next) == [interval_seconds |-> seconds, task |-> 0, next_run |-> next]

\* asyncio.create_task(self._execute(job)): the task has not run yet
\* attempts is tenacity's attempt_number, wake the timer of its backoff sleep
NewTask(n) == [job |-> n, st |-> "new", attempts |-> 0, cancel |-> FALSE, wake |-> 0]

\* a task that is done keeps its outcome only: its frame is gone
Done(t, outcome) == [t EXCEPT !.st = outcome, !.attempts = 0, !.cancel = FALSE, !.wake = 0]

\* run_with_shutdown has not been called: there is no _Closer yet
NoCloser == [pc |-> "none", event |-> FALSE, cleanups |-> <<>>, i |-> 0,
             invoked |-> <<>>, task |-> "none", kb |-> "none"]

\* BotManager.__init__ and initialize(): the application is built, the
\* scheduler made, nothing is started and _is_running is False
NewBotManager == [pc |-> "new", mode |-> "", owner |-> FALSE, event |-> FALSE,
                  application |-> "built", updater |-> "idle", scheduler |-> FALSE,
                  is_running |-> FALSE, raised |-> FALSE, sent |-> 0,
                  stopped |-> <<>>]

Init ==
    /\ now = 0
    /\ utcoffset = 0
    /\ jobs = <<>>
    /\ order = <<>>
    /\ running = FALSE
    /\ loop_task = 0
    /\ loops = <<>>
    /\ tasks = <<>>
    /\ stop_requested = FALSE
    /\ calls = 0
    /\ settings = <<>>
    /\ groups = <<>>
    /\ awaiting = <<>>
    /\ reply = [msg |-> "", n |-> 0, gid |-> ""]
    /\ callback_user = ""
    /\ stamp_clock = 0
    /\ closer = NoCloser
    /\ bot = NewBotManager

\* the wall clock moves forward to a later observed instant; the sleeps that
\* end by then are over
AdvanceClock ==
    /\ \E t \in Instants :
          /\ t > now
          /\ now' = t
          /\ loops' = [l \in DOMAIN loops |-> Fired(loops[l], t)]
          /\ tasks' = [i \in DOMAIN tasks |-> Fired(tasks[i], t)]
    /\ UNCHANGED <<utcoffset, callback_user, stamp_clock, closer, bot, jobs, order, running, loop_task, stop_requested, calls, store>>

\* a start() without its test `if self._running: return`
start_always_spawning ==
    /\ running' = TRUE
    /\ loops' = Append(loops, [st |-> "new", cancel |-> FALSE, wake |-> 0, now |-> Unbound])
    /\ loop_task' = Len(loops) + 1
    /\ stop_requested' = FALSE
    /\ calls < MaxCalls /\ calls' = calls + 1
    /\ UNCHANGED <<now, utcoffset, callback_user, stamp_clock, closer, bot, jobs, order, tasks, store>>

\* a start() that makes every registered job due at once
start_rescheduling ==
    /\ IF running
       THEN UNCHANGED <<running, loop_task, loops, stop_requested, jobs>>
       ELSE /\ running' = TRUE
            /\ loops' = Append(loops, [st |-> "new", cancel |-> FALSE, wake |-> 0, now |-> Unbound])
            /\ loop_task' = Len(loops) + 1
            /\ stop_requested' = FALSE
            /\ jobs' = [n \in DOMAIN jobs |-> [jobs[n] EXCEPT !.next_run = _now]]
    /\ calls < MaxCalls /\ calls' = calls + 1
    /\ UNCHANGED <<now, utcoffset, callback_user, stamp_clock, closer, bot, order, tasks, store>>

\* SchedulerManager.start
start ==
    /\ IF running
       THEN UNCHANGED <<running, loop_task, loops, stop_requested>>
       ELSE /\ running' = TRUE
            /\ loops' = Append(loops, [st |-> "new", cancel |-> FALSE, wake |-> 0, now |-> Unbound])
            /\ loop_task' = Len(loops) + 1
            /\ stop_requested' = FALSE
    /\ calls < MaxCalls /\ calls' = calls + 1
    /\ UNCHANGED <<now, utcoffset, callback_user, stamp_clock, closer, bot, jobs, order, tasks, store>>

\* the tasks stop() cancels: job.task of every job in self._jobs
JobTasks == {jobs[n].task : n \in DOMAIN jobs} \ {0}

\* stop() as it would be had it only cancelled the executions and left the
\* tick loop alone
stop_leaving_loop ==
    /\ tasks' = [i \in DOMAIN tasks |-> IF i \in JobTasks THEN Cancel(tasks[i]) ELSE tasks[i]]
    /\ stop_requested' = TRUE
    /\ calls < MaxCalls /\ calls' = calls + 1
    /\ UNCHANGED <<now, utcoffset, callback_user, stamp_clock, closer, bot, jobs, order, running, loop_task, loops, store>>

\* SchedulerManager.stop
stop ==
    /\ running' = FALSE
    /\ loops' = [l \in DOMAIN loops |-> IF l = loop_task THEN Cancel(loops[l]) ELSE loops[l]]
    /\ tasks' = [i \in DOMAIN tasks |-> IF i \in JobTasks THEN Cancel(tasks[i]) ELSE tasks[i]]
    /\ stop_requested' = TRUE
    /\ calls < MaxCalls /\ calls' = calls + 1
    /\ UNCHANGED <<now, utcoffset, callback_user, stamp_clock, closer, bot, jobs, order, loop_task, store>>

\* an interval without its floor of one minute
IntervalSeconds_unfloored(minutes) == minutes * SecondsPerMinute

\* seconds = max(60, minutes * 60)
IntervalSeconds(minutes) == Max(MinIntervalSeconds, minutes * SecondsPerMinute)

\* a registration that makes every registered job due at once
add_interval_job_resetting_all(name, minutes) ==
    /\ jobs' = [n \in DOMAIN jobs \cup {name} |->
                  IF n = name THEN _Job(IntervalSeconds(minutes), _now)
                  ELSE [jobs[n] EXCEPT !.next_run = _now]]
    /\ order' = IF name \in DOMAIN jobs THEN order ELSE Append(order, name)
    /\ calls < MaxCalls /\ calls' = calls + 1
    /\ UNCHANGED <<now, utcoffset, callback_user, stamp_clock, closer, bot, running, loop_task, loops, tasks, stop_requested, store>>

\* SchedulerManager.add_interval_job
add_interval_job(name, minutes) ==
    /\ jobs' = [n \in DOMAIN jobs \cup {name} |->
                  IF n = name THEN _Job(IntervalSeconds(minutes), _now) ELSE jobs[n]]
    /\ order' = IF name \in DOMAIN jobs THEN order ELSE Append(order, name)
    /\ calls < MaxCalls /\ calls' = calls + 1
    /\ UNCHANGED <<now, utcoffset, callback_user, stamp_clock, closer, bot, running, loop_task, loops, tasks, stop_requested, store>>

\* `if job.next_run and now >= job.next_run` (a datetime is always truthy)
IsDue(n) == _now >= jobs[n].next_run

\* the jobs one iteration of the for loop dispatches, in the order of
\* list(self._jobs.values()), i.e. insertion order of the dict
DueSeq == SelectSeq(order, LAMBDA n : IsDue(n))

IndexOf(s, x) == CHOOSE k \in 1..Len(s) : s[k] = x

\* a dispatch that keeps the schedule: the next run counted from the run that
\* was due, not from the tick
Dispatched_from_next_run(n) ==
    [jobs[n] EXCEPT !.next_run = jobs[n].next_run + jobs[n].interval_seconds,
                    !.task = Len(tasks) + IndexOf(DueSeq, n)]

\* job.next_run = now + timedelta(seconds=job.interval_seconds)
\* job.task = asyncio.create_task(self._execute(job))
Dispatched(n) == [jobs[n] EXCEPT !.next_run = _now + jobs[n].interval_seconds,
                                 !.task = Len(tasks) + IndexOf(DueSeq, n)]

\* a tick loop that waits for the executions: an iteration that finds an
\* execution pending dispatches nothing
_runner_awaiting(l) ==
    /\ l \in DOMAIN loops
    /\ loops[l].st \in LoopPending
    /\ IF loops[l].cancel
       THEN /\ loops' = [loops EXCEPT ![l] = [st |-> "cancelled", cancel |-> FALSE, wake |-> 0, now |-> Unbound]]
            /\ UNCHANGED <<jobs, tasks>>
       ELSE /\ loops[l].wake = 0
            /\ IF ~running
               THEN /\ loops' = [loops EXCEPT ![l] = [st |-> "done", cancel |-> FALSE, wake |-> 0, now |-> Unbound]]
                    /\ UNCHANGED <<jobs, tasks>>
               ELSE /\ Len(tasks) + Len(DueSeq) <= MaxTasks
                    /\ IF \E i \in DOMAIN tasks : tasks[i].st \in Pending
                       THEN UNCHANGED <<jobs, tasks>>
                       ELSE /\ jobs' = [n \in DOMAIN jobs |->
                                          IF IsDue(n) THEN Dispatched(n) ELSE jobs[n]]
                            /\ tasks' = tasks \o [k \in 1..Len(DueSeq) |-> NewTask(DueSeq[k])]
                    /\ loops' = [loops EXCEPT ![l].st = "sleeping",
                                              ![l].wake = Sleep(TickSeconds),
                                              ![l].now = _now]
    /\ UNCHANGED <<now, utcoffset, callback_user, stamp_clock, closer, bot, order, running, loop_task, stop_requested, calls, store>>

\* SchedulerManager._runner: one resumption of tick-loop task l, up to its
\* next `await asyncio.sleep(1)` or to its end
_runner(l) ==
    /\ l \in DOMAIN loops
    /\ loops[l].st \in LoopPending
    /\ IF loops[l].cancel
       THEN \* CancelledError is thrown at the await (or before the first step)
            /\ loops' = [loops EXCEPT ![l] = [st |-> "cancelled", cancel |-> FALSE, wake |-> 0, now |-> Unbound]]
            /\ UNCHANGED <<jobs, tasks>>
       ELSE /\ loops[l].wake = 0
            /\ IF ~running
               THEN \* `while self._running` is false: the coroutine returns
                    /\ loops' = [loops EXCEPT ![l] = [st |-> "done", cancel |-> FALSE, wake |-> 0, now |-> Unbound]]
                    /\ UNCHANGED <<jobs, tasks>>
               ELSE /\ Len(tasks) + Len(DueSeq) <= MaxTasks
                    /\ jobs' = [n \in DOMAIN jobs |->
                                  IF IsDue(n) THEN Dispatched(n) ELSE jobs[n]]
                    /\ tasks' = tasks \o [k \in 1..Len(DueSeq) |-> NewTask(DueSeq[k])]
                    /\ loops' = [loops EXCEPT ![l].st = "sleeping",
                                              ![l].wake = Sleep(TickSeconds),
                                              ![l].now = _now]
    /\ UNCHANGED <<now, utcoffset, callback_user, stamp_clock, closer, bot, order, running, loop_task, stop_requested, calls, store>>

\* the exponent taken from the attempt number instead of the attempt number - 1
WaitHigh_from_attempt(n) == Min(WaitMax, WaitMultiplier * Pow(2, n))

\* wait_random_exponential(multiplier=1, max=60) after attempt number n:
\* random.uniform(0, min(max, multiplier * 2 ** (n - 1)))
WaitHigh(n) == Min(WaitMax, WaitMultiplier * Pow(2, n - 1))

\* the sampled outcomes of random.uniform(0, WaitHigh(n)): both ends
Delays(n) == {0, WaitHigh(n)}

\* a stop condition that is off by one
StopAfterAttempt_late(n) == n > MaxAttempts

\* stop_after_attempt(5)
StopAfterAttempt(n) == n >= MaxAttempts

\* the first step of an execution task: tenacity makes attempt 1 and the
\* task suspends in `await job.coro()`
execute_start(i) ==
    /\ i \in DOMAIN tasks
    /\ tasks[i].st = "new" /\ ~tasks[i].cancel
    /\ tasks' = [tasks EXCEPT ![i].st = "action", ![i].attempts = 1]
    /\ UNCHANGED <<now, utcoffset, callback_user, stamp_clock, closer, bot, jobs, order, running, loop_task, loops, stop_requested, calls, store>>

\* an execution that reschedules its job when it completes
execute_success_rescheduling(i) ==
    /\ i \in DOMAIN tasks
    /\ tasks[i].st = "action" /\ ~tasks[i].cancel
    /\ tasks' = [tasks EXCEPT ![i] = Done(tasks[i], "success")]
    /\ jobs' = [n \in DOMAIN jobs |->
                  IF n = tasks[i].job
                  THEN [jobs[n] EXCEPT !.next_run = now + jobs[n].interval_seconds]
                  ELSE jobs[n]]
    /\ UNCHANGED <<now, utcoffset, callback_user, stamp_clock, closer, bot, order, running, loop_task, loops, stop_requested, calls, store>>

\* job.coro() returns: _execute returns and the task is done
execute_success(i) ==
    /\ i \in DOMAIN tasks
    /\ tasks[i].st = "action" /\ ~tasks[i].cancel
    /\ tasks' = [tasks EXCEPT ![i] = Done(tasks[i], "success")]
    /\ UNCHANGED <<now, utcoffset, callback_user, stamp_clock, closer, bot, jobs, order, running, loop_task, loops, stop_requested, calls, store>>

\* an execution that removes its job from the registry when it gives up
execute_failure_deregistering(i) ==
    /\ i \in DOMAIN tasks
    /\ tasks[i].st = "action" /\ ~tasks[i].cancel
    /\ IF StopAfterAttempt(tasks[i].attempts)
       THEN /\ tasks' = [tasks EXCEPT ![i] = Done(tasks[i], "failed")]
            /\ jobs' = [n \in DOMAIN jobs \ {tasks[i].job} |-> jobs[n]]
            /\ order' = SelectSeq(order, LAMBDA n : n # tasks[i].job)
       ELSE /\ \E d \in Delays(tasks[i].attempts) :
                 tasks' = [tasks EXCEPT ![i].st = "backoff", ![i].wake = Sleep(d)]
            /\ UNCHANGED <<jobs, order>>
    /\ UNCHANGED <<now, utcoffset, callback_user, stamp_clock, closer, bot, running, loop_task, loops, stop_requested, calls, store>>

\* an execution whose failure puts every job of the registry off by a second
execute_failure_delaying_all(i) ==
    /\ i \in DOMAIN tasks
    /\ tasks[i].st = "action" /\ ~tasks[i].cancel
    /\ IF StopAfterAttempt(tasks[i].attempts)
       THEN tasks' = [tasks EXCEPT ![i] = Done(tasks[i], "failed")]
       ELSE \E d \in Delays(tasks[i].attempts) :
                tasks' = [tasks EXCEPT ![i].st = "backoff", ![i].wake = Sleep(d)]
    /\ jobs' = [n \in DOMAIN jobs |-> [jobs[n] EXCEPT !.next_run = @ + 1]]
    /\ UNCHANGED <<now, utcoffset, callback_user, stamp_clock, closer, bot, order, running, loop_task, loops, stop_requested, calls, store>>

\* job.coro() raises an Exception: logged and re-raised by _execute; tenacity
\* either raises RetryError (the task is done) or sleeps the backoff delay
execute_failure(i) ==
    /\ i \in DOMAIN tasks
    /\ tasks[i].st = "action" /\ ~tasks[i].cancel
    /\ IF StopAfterAttempt(tasks[i].attempts)
       THEN tasks' = [tasks EXCEPT ![i] = Done(tasks[i], "failed")]
       ELSE \E d \in Delays(tasks[i].attempts) :
                tasks' = [tasks EXCEPT ![i].st = "backoff", ![i].wake = Sleep(d)]
    /\ UNCHANGED <<now, utcoffset, callback_user, stamp_clock, closer, bot, jobs, order, running, loop_task, loops, stop_requested, calls, store>>

\* the backoff sleep is over: tenacity makes the next attempt
execute_retry(i) ==
    /\ i \in DOMAIN tasks
    /\ tasks[i].st = "backoff" /\ ~tasks[i].cancel
    /\ tasks[i].wake = 0
    /\ tasks' = [tasks EXCEPT ![i].st = "action", ![i].attempts = @ + 1]
    /\ UNCHANGED <<now, utcoffset, callback_user, stamp_clock, closer, bot, jobs, order, running, loop_task, loops, stop_requested, calls, store>>

\* a cancellation handled like any other exception of the action
Cancelled_as_failure(t) == Done(t, "failed")

\* CancelledError thrown into the task: `except asyncio.CancelledError: raise`;
\* it is a BaseException, which tenacity's default retry predicate
\* (retry_if_exception_type(Exception)) does not retry
Cancelled(t) == Done(t, "cancelled")

\* a cancelled execution task is resumed (in the action, in the backoff sleep,
\* or before its first step)
execute_cancelled(i) ==
    /\ i \in DOMAIN tasks
    /\ tasks[i].st \in Pending /\ tasks[i].cancel
    /\ tasks' = [tasks EXCEPT ![i] = Cancelled(tasks[i])]
    /\ UNCHANGED <<now, utcoffset, callback_user, stamp_clock, closer, bot, jobs, order, running, loop_task, loops, stop_requested, calls, store>>

Next ==
    \/ AdvanceClock
    \/ start
    \/ stop
    \/ \E name \in Names, minutes \in MinutesIn : add_interval_job(name, minutes)
    \/ \E l \in DOMAIN loops : _runner(l)
    \/ \E i \in DOMAIN tasks : execute_start(i)
    \/ \E i \in DOMAIN tasks : execute_success(i)
    \/ \E i \in DOMAIN tasks : execute_failure(i)
    \/ \E i \in DOMAIN tasks : execute_retry(i)
    \/ \E i \in DOMAIN tasks : execute_cancelled(i)

Spec == Init /\ [][Next]_vars

TypeOK ==
    /\ now \in Nat
    /\ running \in BOOLEAN
    /\ DOMAIN jobs \subseteq Names
    /\ Len(tasks) <= MaxTasks
    /\ loop_task \in 0..Len(loops)

\* --------------------------------------------- a fault of the tick loop
\* _runner catches nothing: an exception raised in its body (for one, the
\* OverflowError of `now + timedelta(seconds=job.interval_seconds)` for a job
\* registered with some 4.3e9 minutes or more) ends the loop task.  Nothing
\* else of the scheduler is written.
_runner_error(l) ==
    /\ l \in DOMAIN loops
    /\ loops[l].st \in LoopPending /\ ~loops[l].cancel /\ loops[l].wake = 0
    /\ running
    /\ loops' = [loops EXCEPT ![l] = [st |-> "error", cancel |-> FALSE, wake |-> 0, now |-> Unbound]]
    /\ UNCHANGED <<now, utcoffset, callback_user, stamp_clock, closer, bot, jobs, order, running, loop_task, tasks, stop_requested, calls, store>>

FaultNext ==
    \/ AdvanceClock
    \/ start
    \/ stop
    \/ \E name \in Names, minutes \in MinutesIn : add_interval_job(name, minutes)
    \/ \E l \in DOMAIN loops : _runner(l)
    \/ \E l \in DOMAIN loops : _runner_error(l)

FaultSpec == Init /\ [][FaultNext]_vars

\* ------------------------------------------- the scheduler under fairness
\* The registry and the tick loop without the executions.  Time passes, and
\* the event loop resumes a task whose timer has fired or whose cancellation
\* was requested: both are weakly fair.
LiveNext ==
    \/ AdvanceClock
    \/ start
    \/ stop
    \/ \E name \in Names, minutes \in MinutesIn : add_interval_job(name, minutes)
    \/ \E l \in DOMAIN loops : _runner(l)

LiveSpec ==
    /\ Init /\ [][LiveNext]_vars
    /\ WF_vars(AdvanceClock)
    /\ \A l \in 1..MaxCalls : WF_vars(_runner(l))

\* ------------------------------------ the tick loop over a given registry
\* The offsets of the host's local time: winter time and summer time.
Offsets == {0, 3600}

\* the sequences of distinct job names: the key orders of the dict _jobs
Orders == {<<>>} \cup {<<n>> : n \in Names}
              \cup {<<n, m>> : <<n, m>> \in {p \in Names \X Names : p[1] # p[2]}}

Range(s) == {s[k] : k \in DOMAIN s}

\* the intervals add_interval_job can give a job
Intervals == {IntervalSeconds(minutes) : minutes \in MinutesIn}

\* A scheduler that was started, with its loop about to tick, and a registry
\* left by earlier registrations: a job registered at instant t has next_run
\* t, and registering a name again keeps its place in the dict, so every
\* order goes with every choice of registration instants up to now.
TickInit ==
    /\ now \in Instants
    /\ utcoffset \in Offsets
    /\ \E o \in Orders :
          /\ order = o
          /\ jobs \in [Range(o) -> {_Job(seconds, t) :
                                      seconds \in Intervals,
                                      t \in {i \in Instants : i <= now}}]
    /\ running = TRUE
    /\ loop_task = 1
    /\ loops = <<[st |-> "new", cancel |-> FALSE, wake |-> 0, now |-> Unbound]>>
    /\ tasks = <<>>
    /\ stop_requested = FALSE
    /\ calls = 0
    /\ settings = <<>>
    /\ groups = <<>>
    /\ awaiting = <<>>
    /\ reply = [msg |-> "", n |-> 0, gid |-> ""]
    /\ callback_user = ""
    /\ stamp_clock = 0
    /\ closer = NoCloser
    /\ bot = NewBotManager

\* the host's zone goes from winter time to summer time or back
ShiftZone ==
    /\ \E o \in Offsets : o # utcoffset /\ utcoffset' = o
    /\ UNCHANGED <<now, callback_user, stamp_clock, closer, bot, jobs, order, running, loop_task, loops, tasks,
                   stop_requested, calls, store>>

\* the time a long pause takes: several times the shortest interval
PauseSeconds == 3 * MinIntervalSeconds

\* a long pause (the event loop is blocked, the host is suspended) or a step
\* forward of the clock: the time the program observes advances by several
\* intervals at once, and every timer within it has fired
LongPause ==
    /\ now \in Instants
    /\ now' = now + PauseSeconds
    /\ loops' = [l \in DOMAIN loops |-> Fired(loops[l], now + PauseSeconds)]
    /\ tasks' = [i \in DOMAIN tasks |-> Fired(tasks[i], now + PauseSeconds)]
    /\ UNCHANGED <<utcoffset, callback_user, stamp_clock, closer, bot, jobs, order, running, loop_task, stop_requested, calls, store>>

TickNext ==
    \/ AdvanceClock
    \/ LongPause
    \/ ShiftZone
    \/ \E name \in Names, minutes \in MinutesIn : add_interval_job(name, minutes)
    \/ \E l \in DOMAIN loops : _runner(l)

TickSpec == TickInit /\ [][TickNext]_vars

\* ------------------------------------------------- text of a message
\* A text is a sequence of characters (strings of length 1).

Whitespace == {" ", "\n"}
Digits == <<"0", "1", "2", "3", "4", "5", "6", "7", "8", "9">>

RECURSIVE lstrip(_)
lstrip(s) == IF s # <<>> /\ Head(s) \in Whitespace THEN lstrip(Tail(s)) ELSE s

RECURSIVE rstrip(_)
rstrip(s) == IF s # <<>> /\ s[Len(s)] \in Whitespace
             THEN rstrip(SubSeq(s, 1, Len(s) - 1))
             ELSE s

\* str.strip()
strip(s) == rstrip(lstrip(s))

\* the str of a sequence of characters
RECURSIVE join(_)
join(s) == IF s = <<>> THEN "" ELSE Head(s) \o join(Tail(s))

\* the index of the first occurrence of character c in s, 0 when there is none
find(s, c) == IF \E k \in 1..Len(s) : s[k] = c
              THEN CHOOSE k \in 1..Len(s) : s[k] = c /\ \A j \in 1..(k - 1) : s[j] # c
              ELSE 0

\* str.split(sep, maxsplit): at most maxsplit + 1 parts
RECURSIVE split(_, _, _)
split(s, sep, maxsplit) ==
    IF maxsplit = 0 \/ find(s, sep) = 0
    THEN <<s>>
    ELSE <<SubSeq(s, 1, find(s, sep) - 1)>>
            \o split(SubSeq(s, find(s, sep) + 1, Len(s)), sep, maxsplit - 1)

\* str.splitlines(): no last empty line
RECURSIVE splitlines(_)
splitlines(s) ==
    IF s = <<>> THEN <<>>
    ELSE IF find(s, "\n") = 0 THEN <<s>>
    ELSE <<SubSeq(s, 1, find(s, "\n") - 1)>>
            \o splitlines(SubSeq(s, find(s, "\n") + 1, Len(s)))

\* [line.strip() for line in text.splitlines() if line.strip()]
Items(text) ==
    LET lines == splitlines(text)
        kept == SelectSeq(lines, LAMBDA l : strip(l) # <<>>)
    IN  [k \in 1..Len(kept) |-> strip(kept[k])]

DigitValue(c) == (CHOOSE d \in 1..10 : Digits[d] = c) - 1

RECURSIVE Decimal(_)
Decimal(s) == IF s = <<>> THEN 0
              ELSE 10 * Decimal(SubSeq(s, 1, Len(s) - 1)) + DigitValue(s[Len(s)])

IsDigits(s) == s # <<>> /\ \A k \in 1..Len(s) : \E d \in 1..10 : Digits[d] = s[k]

\* the digits of int(s): s stripped, without its sign
Unsigned(s) == IF strip(s) # <<>> /\ Head(strip(s)) \in {"+", "-"}
               THEN Tail(strip(s))
               ELSE strip(s)

\* int(s) does not raise ValueError
IsInt(s) == IsDigits(Unsigned(s))

\* int(s)
int(s) == IF Head(strip(s)) = "-" THEN 0 - Decimal(Unsigned(s)) ELSE Decimal(Unsigned(s))

\* ------------------------------------------------- infra/repo.py: Repo
\* An Optional value is a sequence: <<>> for None, <<v>> for the value v.
\* The timestamps created_at and updated_at are left out.

DefaultGlobalInterval == 5     \* s.get("global_interval_min", 5)

\* dict.get(key, default)
Get(d, key, default) == IF key \in DOMAIN d THEN d[key] ELSE default

\* Repo.get_settings: a BotSettings
get_settings ==
    [info_name           |-> Get(settings, "info_name", <<>>),
     info_channel        |-> Get(settings, "info_channel", <<>>),
     info_group          |-> Get(settings, "info_group", <<>>),
     welcome_message     |-> Get(settings, "welcome_message", <<>>),
     contact             |-> Get(settings, "contact", <<>>),
     global_interval_min |-> Get(settings, "global_interval_min", DefaultGlobalInterval)]

\* a set_settings that writes every field but the interval
set_settings_without_interval(s) ==
    [info_name           |-> s.info_name,
     info_channel        |-> s.info_channel,
     info_group          |-> s.info_group,
     welcome_message     |-> s.welcome_message,
     contact             |-> s.contact]

\* Repo.set_settings(s): the dict written to self._data["settings"]
set_settings(s) ==
    [info_name           |-> s.info_name,
     info_channel        |-> s.info_channel,
     info_group          |-> s.info_group,
     welcome_message     |-> s.welcome_message,
     contact             |-> s.contact,
     global_interval_min |-> s.global_interval_min]

\* _now() of repo.py: datetime.now(timezone.utc).isoformat(), the stamp of
\* the UTC instant now
isoformat_now == stamp_clock

\* the dict add_groups stores for the stripped id gid
NewGroup(gid) ==
    [username             |-> IF Head(gid) = "@" THEN <<join(Tail(gid))>> ELSE <<>>,
     name                 |-> <<>>,
     custom_interval_min  |-> <<>>,
     excluded_from_global |-> FALSE,
     created_at           |-> isoformat_now,
     updated_at           |-> isoformat_now]

\* an add_groups without the test `if gid in self._data["groups"]`
RECURSIVE add_groups_overwriting(_, _, _)
add_groups_overwriting(g, items, count) ==
    IF items = <<>> THEN [groups |-> g, count |-> count]
    ELSE LET gid == strip(Head(items)) IN
         IF gid = <<>>
         THEN add_groups_overwriting(g, Tail(items), count)
         ELSE add_groups_overwriting([k \in DOMAIN g \cup {join(gid)} |->
                                        IF k = join(gid) THEN NewGroup(gid) ELSE g[k]],
                                     Tail(items), count + 1)

\* Repo.add_groups(items) on the dict g with the count so far: the dict and
\* the count after the for loop
RECURSIVE add_groups(_, _, _)
add_groups(g, items, count) ==
    IF items = <<>> THEN [groups |-> g, count |-> count]
    ELSE LET gid == strip(Head(items)) IN
         IF gid = <<>> \/ join(gid) \in DOMAIN g
         THEN add_groups(g, Tail(items), count)
         ELSE add_groups([k \in DOMAIN g \cup {join(gid)} |->
                            IF k = join(gid) THEN NewGroup(gid) ELSE g[k]],
                         Tail(items), count + 1)

\* Repo.del_groups(items)
RECURSIVE del_groups(_, _, _)
del_groups(g, items, count) ==
    IF items = <<>> THEN [groups |-> g, count |-> count]
    ELSE IF join(Head(items)) \in DOMAIN g
         THEN del_groups([k \in DOMAIN g \ {join(Head(items))} |-> g[k]],
                         Tail(items), count + 1)
         ELSE del_groups(g, Tail(items), count)

\* a set_excluded that creates the entities it does not find
RECURSIVE set_excluded_creating(_, _, _, _)
set_excluded_creating(g, items, excluded, count) ==
    IF items = <<>> THEN [groups |-> g, count |-> count]
    ELSE LET gid == join(Head(items)) IN
         set_excluded_creating(
             [k \in DOMAIN g \cup {gid} |->
                IF k # gid THEN g[k]
                ELSE IF gid \in DOMAIN g
                THEN [g[gid] EXCEPT !.excluded_from_global = excluded,
                                    !.updated_at = isoformat_now]
                ELSE [NewGroup(Head(items)) EXCEPT !.excluded_from_global = excluded]],
             Tail(items), excluded, count + 1)

\* Repo.set_excluded(items, excluded)
RECURSIVE set_excluded(_, _, _, _)
set_excluded(g, items, excluded, count) ==
    IF items = <<>> THEN [groups |-> g, count |-> count]
    ELSE IF join(Head(items)) \in DOMAIN g
         THEN set_excluded([g EXCEPT ![join(Head(items))].excluded_from_global = excluded,
                                     ![join(Head(items))].updated_at = isoformat_now],
                           Tail(items), excluded, count + 1)
         ELSE set_excluded(g, Tail(items), excluded, count)

\* a set_group_interval that creates the entity it does not find
set_group_interval_upsert(g, gid, minutes) ==
    [groups |-> [k \in DOMAIN g \cup {gid} |->
                   IF k = gid
                   THEN [username |-> <<>>, name |-> <<>>,
                         custom_interval_min |-> <<minutes>>,
                         excluded_from_global |-> FALSE,
                         created_at |-> isoformat_now, updated_at |-> isoformat_now]
                   ELSE g[k]],
     ok |-> TRUE]

\* Repo.set_group_interval(gid, minutes): the dict after the call and the
\* value returned
set_group_interval(g, gid, minutes) ==
    IF gid \in DOMAIN g
    THEN [groups |-> [g EXCEPT ![gid].custom_interval_min = <<minutes>>,
                               ![gid].updated_at = isoformat_now],
          ok |-> TRUE]
    ELSE [groups |-> g, ok |-> FALSE]

\* ------------------------------------------- the repository on its own
\* The methods of Repo that write the entities, called with any list of ids
\* and any minutes, while the clock of the stamps advances.

MaxStamp == 2          \* instants of the stamps' clock after the first

\* the lists of ids given to the methods: one id, two ids, an id twice
StoreItems == { << <<"A">> >>, << <<"B">> >>, << <<"A">>, <<"B">> >>,
                << <<"B">>, <<"B">> >> }

\* the ids and the minutes given to set_group_interval
StoreIds == {"A", "B"}
StoreMinutes == {1, 3}

AdvanceStamp ==
    /\ stamp_clock < MaxStamp
    /\ stamp_clock' = stamp_clock + 1
    /\ UNCHANGED <<now, utcoffset, callback_user, closer, bot, jobs, order, running, loop_task, loops,
                   tasks, stop_requested, calls, store>>

\* one call of a method of Repo that gives self._data["groups"] the value g
Writes(g) ==
    /\ groups' = g
    /\ UNCHANGED <<now, utcoffset, callback_user, stamp_clock, closer, bot, jobs, order, running,
                   loop_task, loops, tasks, stop_requested, calls, settings, awaiting, reply>>

StoreNext ==
    \/ AdvanceStamp
    \/ \E items \in StoreItems : Writes(add_groups(groups, items, 0).groups)
    \/ \E items \in StoreItems : Writes(del_groups(groups, items, 0).groups)
    \/ \E items \in StoreItems, excluded \in BOOLEAN :
          Writes(set_excluded(groups, items, excluded, 0).groups)
    \/ \E gid \in StoreIds, minutes \in StoreMinutes :
          Writes(set_group_interval(groups, gid, minutes).groups)

StoreSpec == Init /\ [][StoreNext]_vars

\* ------------------------------- handlers/admin_commands.py: the panel

MinMinutes == 1        \* minutes < 1
MaxMinutes == 1440     \* minutes > 1440

OWNER_ID == "owner"
\* the owner is put into ADMIN_USERS when the settings are loaded
ADMIN_USERS == {OWNER_ID, "admin"}

\* the values of AdminAction, without their "adm:" prefix
AdminAction == {"root", "set_info", "set_contact", "time", "ex_time", "groups",
                "groups:add", "groups:del", "groups:list",
                "ex:set_groups", "ex:del_groups", "ex:set_time"}

\* a message of the panel: its text, and the number and the group id it quotes
Reply(msg, n, gid) == [msg |-> msg, n |-> n, gid |-> gid]

\* _set_admin_context(context, awaiting=a) after q.edit_message_text(...)
Prompt(a) == awaiting' = a /\ reply' = Reply("prompt", 0, "")

\* AdminCommandsHandler._on_callback: user uid presses a button of the panel
\* (q.from_user is not looked at)
_on_callback(uid, data) ==
    /\ callback_user' = uid
    /\ CASE data = "set_info"      -> Prompt(<<"set_info">>)
         [] data = "set_contact"   -> Prompt(<<"set_contact">>)
         [] data = "time"          -> Prompt(<<"set_time_global">>)
         [] data = "ex_time"       -> awaiting' = <<>> /\ reply' = Reply("Ex-Time", 0, "")
         [] data = "groups"        -> awaiting' = <<>> /\ reply' = Reply("Groups", 0, "")
         [] data = "root"          -> /\ awaiting' = <<>>
                                      /\ reply' = Reply("Panel admina",
                                                        get_settings.global_interval_min, "")
         [] data = "ex:set_groups" -> Prompt(<<"ex_set_groups">>)
         [] data = "ex:del_groups" -> Prompt(<<"ex_del_groups">>)
         [] data = "ex:set_time"   -> Prompt(<<"ex_set_time">>)
         [] data = "groups:add"    -> Prompt(<<"groups_add">>)
         [] data = "groups:del"    -> Prompt(<<"groups_del">>)
         [] data = "groups:list"   -> /\ awaiting' = <<>>
                                      /\ reply' = Reply("Lista grup",
                                                        Cardinality(DOMAIN groups), "")
         [] OTHER                  -> UNCHANGED <<awaiting, reply>>
    /\ UNCHANGED <<now, utcoffset, stamp_clock, closer, bot, jobs, order, running, loop_task, loops, tasks,
                   stop_requested, calls, settings, groups>>

\* a range test without its upper limit
InRange_no_upper(minutes) == ~(minutes < MinMinutes)

\* `if minutes < 1 or minutes > 1440: raise ValueError`
InRange(minutes) == ~(minutes < MinMinutes \/ minutes > MaxMinutes)

\* a try block that only parses the number
ValidMinutes_any_int(s) == IsInt(s)

\* the try block of the branches that read a number of minutes does not raise
ValidMinutes(s) == IsInt(s) /\ InRange(int(s))

\* the branch awaiting == "set_info"
set_info(text) ==
    LET parts == split(text, ",", 3)
        s == get_settings
    IN  IF Len(parts) # 4
        THEN /\ reply' = Reply("Format: @nazwa,@kanal,@grupa,wiadomosc", 0, "")
             /\ UNCHANGED <<settings, groups, awaiting>>
        ELSE /\ settings' = set_settings(
                    [s EXCEPT !.info_name = <<join(strip(parts[1]))>>,
                              !.info_channel = <<join(strip(parts[2]))>>,
                              !.info_group = <<join(strip(parts[3]))>>,
                              !.welcome_message = <<join(strip(parts[4]))>>])
             /\ reply' = Reply("Zapisano dane info", 0, "")
             /\ awaiting' = <<>>
             /\ UNCHANGED groups

\* the branch awaiting == "set_contact"
set_contact(text) ==
    /\ settings' = set_settings([get_settings EXCEPT !.contact = <<join(text)>>])
    /\ reply' = Reply("Zapisano kontakt admina", 0, "")
    /\ awaiting' = <<>>
    /\ UNCHANGED groups

\* a branch that goes on awaiting the global interval after it has stored one
set_time_global_keeping_prompt(text) ==
    IF ~ValidMinutes(text)
    THEN /\ reply' = Reply("Nieprawidlowa wartosc. Podaj liczbe minut 1-1440.", 0, "")
         /\ UNCHANGED <<settings, groups, awaiting>>
    ELSE /\ settings' = set_settings([get_settings EXCEPT !.global_interval_min = int(text)])
         /\ reply' = Reply("Ustawiono globalny interwal", int(text), "")
         /\ UNCHANGED <<groups, awaiting>>

\* the branch awaiting == "set_time_global"
set_time_global(text) ==
    IF ~ValidMinutes(text)
    THEN /\ reply' = Reply("Nieprawidlowa wartosc. Podaj liczbe minut 1-1440.", 0, "")
         /\ UNCHANGED <<settings, groups, awaiting>>
    ELSE /\ settings' = set_settings([get_settings EXCEPT !.global_interval_min = int(text)])
         /\ reply' = Reply("Ustawiono globalny interwal", int(text), "")
         /\ awaiting' = <<>>
         /\ UNCHANGED groups

\* the branches awaiting == "ex_set_groups" and awaiting == "ex_del_groups"
ex_groups(text, excluded) ==
    LET r == set_excluded(groups, Items(text), excluded, 0)
    IN  /\ groups' = r.groups
        /\ reply' = Reply(IF excluded THEN "Dodano do wykluczen" ELSE "Usunieto z wykluczen",
                          r.count, "")
        /\ awaiting' = <<>>
        /\ UNCHANGED settings

\* the branch awaiting == "ex_set_time"
ex_set_time(text) ==
    LET parts == split(text, ",", 1) IN
    IF Len(parts) # 2 \/ ~ValidMinutes(parts[2])
    THEN /\ reply' = Reply("Format: group_id,minuty (1-1440)", 0, "")
         /\ UNCHANGED <<settings, groups, awaiting>>
    ELSE LET gid == join(strip(parts[1]))
             mins == int(parts[2])
             r == set_group_interval(groups, gid, mins)
         IN  /\ groups' = r.groups
             /\ reply' = IF r.ok THEN Reply("Ustawiono min dla", mins, gid)
                                 ELSE Reply("Nie znaleziono grupy", 0, gid)
             /\ awaiting' = <<>>
             /\ UNCHANGED settings

\* the branch awaiting == "groups_add"
groups_add(text) ==
    LET r == add_groups(groups, Items(text), 0)
    IN  /\ groups' = r.groups
        /\ reply' = Reply("Dodano grup", r.count, "")
        /\ awaiting' = <<>>
        /\ UNCHANGED settings

\* the branch awaiting == "groups_del"
groups_del(text) ==
    LET r == del_groups(groups, Items(text), 0)
    IN  /\ groups' = r.groups
        /\ reply' = Reply("Usunieto grup", r.count, "")
        /\ awaiting' = <<>>
        /\ UNCHANGED settings

\* a handler of texts without its test of the sender
_on_text_input_of_anyone(uid, raw) ==
    /\ LET text == strip(raw) IN
       CASE awaiting = <<"set_info">>        -> set_info(text)
         [] awaiting = <<"set_contact">>     -> set_contact(text)
         [] awaiting = <<"set_time_global">> -> set_time_global(text)
         [] awaiting = <<"ex_set_groups">>   -> ex_groups(text, TRUE)
         [] awaiting = <<"ex_del_groups">>   -> ex_groups(text, FALSE)
         [] awaiting = <<"ex_set_time">>     -> ex_set_time(text)
         [] awaiting = <<"groups_add">>      -> groups_add(text)
         [] awaiting = <<"groups_del">>      -> groups_del(text)
         [] OTHER                            -> UNCHANGED store
    /\ UNCHANGED <<now, utcoffset, callback_user, stamp_clock, closer, bot, jobs, order, running, loop_task, loops, tasks,
                   stop_requested, calls>>

\* AdminCommandsHandler._on_text_input: user uid sends a text message
_on_text_input(uid, raw) ==
    /\ IF uid \notin ADMIN_USERS /\ uid # OWNER_ID
       THEN UNCHANGED store
       ELSE LET text == strip(raw) IN
            CASE awaiting = <<"set_info">>        -> set_info(text)
              [] awaiting = <<"set_contact">>     -> set_contact(text)
              [] awaiting = <<"set_time_global">> -> set_time_global(text)
              [] awaiting = <<"ex_set_groups">>   -> ex_groups(text, TRUE)
              [] awaiting = <<"ex_del_groups">>   -> ex_groups(text, FALSE)
              [] awaiting = <<"ex_set_time">>     -> ex_set_time(text)
              [] awaiting = <<"groups_add">>      -> groups_add(text)
              [] awaiting = <<"groups_del">>      -> groups_del(text)
              [] OTHER                            -> UNCHANGED store
    /\ UNCHANGED <<now, utcoffset, callback_user, stamp_clock, closer, bot, jobs, order, running, loop_task, loops, tasks, stop_requested, calls>>

\* ------------------------------------------- the admin panel on its own

Users == {"owner", "guest"}

\* the texts sent to the panel in answer to its prompt: the four fields of
\* the info or fewer, a contact, numbers of minutes in and out of 1..1440 or
\* no number, lists of group ids (one per line), a group id with its minutes
PanelAnswers(a) ==
    CASE a = <<"set_info">>        -> { <<"a", ",", "b", ",", "c", ",", "d">>, <<"x">> }
      [] a = <<"set_time_global">> -> { <<"3">>, <<"1", "4", "4", "0">>, <<"0">>,
                                        <<"1", "4", "4", "1">>, <<"x">> }
      [] a = <<"ex_set_time">>     -> { <<"B", ",", " ", "3">>, <<"A", ",", "1">>,
                                        <<"B", ",", "0">>, <<"B", ",", "1", "4", "4", "1">>,
                                        <<"B">> }
      [] a = <<"groups_add">>      -> { <<"A", "\n", " ", "B">>, <<"B", "\n", "B">> }
      [] a \in {<<"ex_set_groups">>, <<"ex_del_groups">>, <<"groups_del">>}
                                   -> { <<"A", "\n", " ", "B">>, <<"B">> }
      [] OTHER                     -> { <<"x">> }

PanelNext ==
    \/ \E data \in AdminAction : _on_callback(OWNER_ID, data)
    \/ \E uid \in Users, raw \in PanelAnswers(awaiting) : _on_text_input(uid, raw)

PanelSpec == Init /\ [][PanelNext]_vars

\* --------------------------------------- the admin panel of several users
\* the owner, an administrator of ADMIN_USERS and a user who is neither
DeskUsers == {OWNER_ID, "admin", "guest"}

\* every user presses the buttons of the panel and sends texts
DeskNext ==
    \/ \E uid \in DeskUsers, data \in AdminAction : _on_callback(uid, data)
    \/ \E uid \in DeskUsers, raw \in PanelAnswers(awaiting) : _on_text_input(uid, raw)

DeskSpec == Init /\ [][DeskNext]_vars

\* ------------------------------------- the panel next to the scheduler
\* The repository holds no caller of add_interval_job.  Here the caller is
\* the one the specification describes: it registers an entity of the store
\* that is not excluded, with the interval the policy gives the entity at
\* that time.  The executions themselves are left to Spec.

\* the policy of entity gid: not eligible when it is excluded, otherwise its
\* own interval when it has one, otherwise the global interval
resolve(gid) ==
    IF groups[gid].excluded_from_global
    THEN [eligible |-> FALSE, interval |-> 0]
    ELSE IF groups[gid].custom_interval_min # <<>>
    THEN [eligible |-> TRUE, interval |-> groups[gid].custom_interval_min[1]]
    ELSE [eligible |-> TRUE, interval |-> get_settings.global_interval_min]

PolicyNames == {"B"}

PolicyAnswers(a) ==
    CASE a = <<"set_time_global">> -> { <<"3">>, <<"0">>, <<"1", "4", "4", "1">>, <<"x">> }
      [] a = <<"ex_set_time">>     -> { <<"B", ",", "3">>, <<"B", ",", "0">>,
                                        <<"B", ",", "1", "4", "4", "1">>, <<"B", ",", "x">> }
      [] a \in {<<"groups_add">>, <<"groups_del">>, <<"ex_set_groups">>, <<"ex_del_groups">>}
                                   -> { <<"B">> }
      [] OTHER                     -> { <<"x">> }

PolicyNext ==
    \/ AdvanceClock
    \/ start
    \/ \E name \in PolicyNames :
          /\ name \in DOMAIN groups
          /\ resolve(name).eligible
          /\ add_interval_job(name, resolve(name).interval)
    \/ \E l \in DOMAIN loops : _runner(l)
    \/ \E data \in AdminAction : _on_callback(OWNER_ID, data)
    \/ \E uid \in Users, raw \in PolicyAnswers(awaiting) : _on_text_input(uid, raw)

PolicySpec == Init /\ [][PolicyNext]_vars

\* ------------------------------------- infra/runner.py: run_with_shutdown
\* closer.pc is the position of the coroutine run_with_shutdown, closer.event
\* is _Closer._event, closer.cleanups is _Closer._cleanups (each callback by
\* what a call of it does), closer.i is the position of the loop of cleanup()
\* and closer.invoked is the history of the callbacks called, by position.
\* ShutdownManager of infra/shutdown.py holds the same list and runs the same
\* loop in run_cleanup.

MaxCleanups == 3       \* callbacks given to run_with_shutdown at most

\* what a call of a cleanup callback does: it returns (or its coroutine
\* does), it raises an Exception, or it raises asyncio.CancelledError, which
\* derives from BaseException and not from Exception
CleanupKinds == {"returns", "raises_Exception", "raises_CancelledError"}

RECURSIVE SeqsUpTo(_, _)
SeqsUpTo(S, n) ==
    IF n = 0 THEN {<<>>}
    ELSE LET shorter == SeqsUpTo(S, n - 1)
         IN  shorter \cup {Append(q, x) : q \in shorter, x \in S}

CleanupLists == SeqsUpTo(CleanupKinds, MaxCleanups)

Shutdown(c) ==
    /\ closer' = c
    /\ UNCHANGED <<now, utcoffset, callback_user, stamp_clock, bot, jobs, order, running,
                   loop_task, loops, tasks, stop_requested, calls, store>>

\* run_with_shutdown up to `await closer.wait()`: the closer is made, every
\* callback of cleanup_coros is registered, the two tasks are created
run_with_shutdown(cleanup_coros) ==
    /\ closer.pc = "none"
    /\ Shutdown([NoCloser EXCEPT !.pc = "wait", !.cleanups = cleanup_coros,
                                 !.task = "running", !.kb = "running"])

\* _Closer.trigger, called by a signal or by the keyboard watcher
trigger ==
    /\ closer.pc # "none"
    /\ Shutdown([closer EXCEPT !.event = TRUE])

\* `await closer.wait()` returns once the event is set; task.cancel() is
\* called, `with asyncio.CancelledError` raises a TypeError that the
\* `except Exception: pass` around it catches, and cleanup() is entered
wait ==
    /\ closer.pc = "wait"
    /\ closer.event
    /\ Shutdown([closer EXCEPT !.pc = "cleanup", !.i = 1, !.task = "cancelling"])

\* one turn of the loop of _Closer.cleanup: the callback is called and
\* awaited; `except Exception` catches an Exception and the loop goes on,
\* anything else leaves cleanup() and run_with_shutdown.  After the last
\* callback cleanup() returns and run_with_shutdown cancels the watcher.
cleanup ==
    /\ closer.pc = "cleanup"
    /\ IF closer.i > Len(closer.cleanups)
       THEN Shutdown([closer EXCEPT !.pc = "returned", !.kb = "cancelling"])
       ELSE LET called == [closer EXCEPT !.invoked = Append(@, closer.i)]
            IN  IF closer.cleanups[closer.i] = "raises_CancelledError"
                THEN Shutdown([called EXCEPT !.pc = "raised"])
                ELSE Shutdown([called EXCEPT !.i = @ + 1])

ShutdownNext ==
    \/ \E cleanup_coros \in CleanupLists : run_with_shutdown(cleanup_coros)
    \/ trigger
    \/ wait
    \/ cleanup

ShutdownSpec == Init /\ [][ShutdownNext]_vars

\* ------------------------------ core/bot_manager.py under main.py's run
\* bot.pc is the position of TelegramBotApplication.run and of the methods
\* of BotManager it awaits, one step for each awaited call.  bot.mode is
\* settings.BOT_MODE, bot.owner tells whether settings.OWNER_ID is set,
\* bot.event is _shutdown_event, bot.application and bot.updater are the
\* state of the telegram Application and of its updater, bot.scheduler is
\* the scheduler's _running, bot.is_running is BotManager._is_running.
\* History: bot.raised (start() raised), bot.sent (notices the owner got),
\* bot.stopped (what stop() has stopped, in order).
\* A call into the telegram library either returns or raises (ok);
\* SchedulerManager.start and stop never raise.

BotModes == {"polling", "webhook"}

Bot(b) ==
    /\ bot' = b
    /\ UNCHANGED <<now, utcoffset, callback_user, stamp_clock, closer, jobs, order, running,
                   loop_task, loops, tasks, stop_requested, calls, store>>

\* TelegramBotApplication.run up to `await self.bot_manager.start()`
run(mode, owner) ==
    /\ bot.pc = "new"
    /\ Bot([bot EXCEPT !.pc = "start:initialize", !.mode = mode, !.owner = owner])

\* signal_handler of _setup_signal_handlers: SIGINT or SIGTERM arrives
signal_handler ==
    /\ bot.pc \notin {"new", "exited"}
    /\ Bot([bot EXCEPT !.event = TRUE])

\* start() raises: `except Exception: ...; raise` in start and in run, then
\* the `finally` of run awaits shutdown(), which awaits stop()
start_raises == [bot EXCEPT !.pc = "stop:check", !.raised = TRUE]

\* _notify_owner_bot_started and _notify_owner_bot_stopping: nothing is sent
\* without an owner, and a failure of send_message is logged only
notified(ok) == IF bot.owner /\ ok THEN bot.sent + 1 ELSE bot.sent

\* BotManager.start, from one awaited call to the next: _start_polling or
\* _start_webhook (initialize, start, updater.start_polling or
\* start_webhook), scheduler.start(), _is_running = True, the notice
BotManager_start(ok) ==
    CASE bot.pc = "start:initialize" ->
            Bot(IF ok THEN [bot EXCEPT !.pc = "start:start", !.application = "initialized"]
                      ELSE start_raises)
      [] bot.pc = "start:start" ->
            Bot(IF ok THEN [bot EXCEPT !.pc = "start:updater", !.application = "running"]
                      ELSE start_raises)
      [] bot.pc = "start:updater" ->
            Bot(IF ok THEN [bot EXCEPT !.pc = "start:scheduler", !.updater = bot.mode]
                      ELSE start_raises)
      [] bot.pc = "start:scheduler" ->
            Bot([bot EXCEPT !.pc = "start:notify", !.scheduler = TRUE, !.is_running = TRUE])
      [] bot.pc = "start:notify" ->
            Bot([bot EXCEPT !.pc = "wait", !.sent = notified(ok)])
      [] OTHER -> FALSE

\* `await self._shutdown_event.wait()` returns, and the `finally` of run
\* awaits shutdown(), which awaits stop()
run_wait ==
    /\ bot.pc = "wait"
    /\ bot.event
    /\ Bot([bot EXCEPT !.pc = "stop:check"])

\* stop() is left: by its return, or by an exception that its
\* `except Exception` logs
stop_returns == [bot EXCEPT !.pc = "shutdown"]

\* BotManager.stop, from one awaited call to the next: the test of
\* _is_running, the notice, scheduler.stop(), updater.stop(),
\* application.stop(), application.shutdown(), _is_running = False
BotManager_stop(ok) ==
    CASE bot.pc = "stop:check" ->
            Bot(IF ~bot.is_running THEN stop_returns
                ELSE [bot EXCEPT !.pc = "stop:notify"])
      [] bot.pc = "stop:notify" ->
            Bot([bot EXCEPT !.pc = "stop:scheduler", !.sent = notified(ok)])
      [] bot.pc = "stop:scheduler" ->
            Bot([bot EXCEPT !.pc = "stop:updater", !.scheduler = FALSE,
                            !.stopped = Append(@, "scheduler")])
      [] bot.pc = "stop:updater" ->
            Bot(IF ok THEN [bot EXCEPT !.pc = "stop:stop", !.updater = "stopped"]
                      ELSE stop_returns)
      [] bot.pc = "stop:stop" ->
            Bot(IF ok THEN [bot EXCEPT !.pc = "stop:shutdown", !.application = "stopped",
                                       !.stopped = Append(@, "application")]
                      ELSE stop_returns)
      [] bot.pc = "stop:shutdown" ->
            Bot(IF ok THEN [stop_returns EXCEPT !.application = "shutdown",
                                                !.is_running = FALSE]
                      ELSE stop_returns)
      [] OTHER -> FALSE

\* the rest of TelegramBotApplication.shutdown after stop(): the telemetry
\* and the database are closed, and run is over
shutdown ==
    /\ bot.pc = "shutdown"
    /\ Bot([bot EXCEPT !.pc = "exited"])

BotNext ==
    \/ \E mode \in BotModes, owner \in BOOLEAN : run(mode, owner)
    \/ signal_handler
    \/ \E ok \in BOOLEAN : BotManager_start(ok)
    \/ run_wait
    \/ \E ok \in BOOLEAN : BotManager_stop(ok)
    \/ shutdown

BotSpec == Init /\ [][BotNext]_vars

\* ------------------------------------------------------------ properties

Terminal == {"success", "failed", "cancelled"}

\* the step is a call of stop() on a scheduler that was not stopped
StopStep == ~stop_requested /\ stop_requested'

\* the step is an iteration of a tick loop (it ends in asyncio.sleep(1))
TickStep == \E l \in DOMAIN loops : loops[l].wake = 0 /\ loops'[l].wake > 0

\* the tasks the step creates
Created == (Len(tasks) + 1)..Len(tasks')

\* C1: for every job at most one execution task is pending at any time: the
\* tick loop never dispatches a job whose previous execution has not finished.
C1_AtMostOneInFlight ==
    \A i, k \in DOMAIN tasks :
        (i # k /\ tasks[i].job = tasks[k].job)
            => ~(tasks[i].st \in Pending /\ tasks[k].st \in Pending)

\* C2: once stop() has been requested, no execution task is created until a
\* later start().
C2_NoDispatchAfterStop == [][stop_requested => Len(tasks') = Len(tasks)]_vars

\* stop() was called while a tick loop was alive and a job was due: the loop
\* has been cancelled and the job is still due
C2_Witness ==
    /\ stop_requested
    /\ \E l \in DOMAIN loops : loops[l].st = "cancelled"
    /\ \E n \in DOMAIN jobs : IsDue(n)

\* C3: stop() requests the cancellation of every execution task that is
\* pending when it is called.
C3_StopCancelsEveryTask ==
    [][StopStep => \A i \in DOMAIN tasks : tasks[i].st \in Pending => tasks'[i].cancel]_vars

\* C4: when stop() returns, the tick loop task and every execution task have
\* terminated.
C4_StopAwaitsTermination ==
    [][StopStep => /\ \A l \in DOMAIN loops : loops'[l].st \notin LoopPending
                   /\ \A i \in DOMAIN tasks : tasks'[i].st \notin Pending]_vars

\* C5: an execution invokes the action at most 5 times; it ends in failure
\* only when the 5th invocation fails, it ends in success only from an
\* invocation, every attempt is one invocation, and an execution that has
\* ended makes no further attempt.
C5_RetryCap ==
    [][\A i \in DOMAIN tasks :
         /\ tasks'[i].attempts <= 5
         /\ (tasks[i].st # "failed" /\ tasks'[i].st = "failed")
                => (tasks[i].st = "action" /\ tasks[i].attempts = 5)
         /\ (tasks[i].st # "success" /\ tasks'[i].st = "success")
                => tasks[i].st = "action"
         /\ (tasks'[i].st \in Pending /\ tasks'[i].attempts # tasks[i].attempts)
                => (tasks'[i].st = "action" /\ tasks'[i].attempts = tasks[i].attempts + 1)
         /\ tasks[i].st \in Terminal => tasks'[i] = tasks[i]]_vars

\* an execution has ended in failure (after its 5th invocation)
C5_Witness == \E i \in DOMAIN tasks : tasks[i].st = "failed"

\* C6: the delay chosen after the failure of attempt n is in [0, 60] seconds
\* and at most 1 * 2^(n-1) seconds (a timer that has fired at once is a delay
\* of 0).
C6_BackoffBound ==
    [][\A i \in DOMAIN tasks :
         (tasks[i].st # "backoff" /\ tasks'[i].st = "backoff")
            => \/ tasks'[i].wake = 0
               \/ /\ tasks'[i].wake - now >= 0
                  /\ tasks'[i].wake - now <= 60
                  /\ tasks'[i].wake - now <= Pow(2, tasks[i].attempts - 1)]_vars

\* the 4th attempt has failed and the longest delay, 8 seconds, was chosen
C6_Witness ==
    \E i \in DOMAIN tasks :
        tasks[i].st = "backoff" /\ tasks[i].attempts = 4 /\ tasks[i].wake - now = 8

\* C7: an execution task whose cancellation was requested while it was in
\* the action or in a backoff wait makes no further attempt and ends as
\* cancelled, never as success or failure.
C7_CancelWins ==
    [][\A i \in DOMAIN tasks :
         (tasks[i].st \in Pending /\ tasks[i].cancel)
            => (tasks'[i] = tasks[i] \/ tasks'[i].st = "cancelled")]_vars

\* a cancellation was requested during a backoff wait, with attempts left
C7_Witness ==
    \E i \in DOMAIN tasks :
        tasks[i].st = "backoff" /\ tasks[i].cancel /\ tasks[i].attempts < 5

\* C8: the step in which an execution gives up leaves the registry as it is
\* (the job, its interval and its next_run), and every iteration of the tick
\* loop dispatches every job whose next_run is reached.
C8_FailureKeepsJob ==
    [][/\ (\E i \in DOMAIN tasks : tasks[i].st # "failed" /\ tasks'[i].st = "failed")
            => (jobs' = jobs /\ order' = order)
       /\ TickStep
            => \A n \in DOMAIN jobs : IsDue(n) => \E k \in Created : tasks'[k].job = n]_vars

\* a job whose execution gave up has been dispatched again
C8_Witness ==
    \E i, k \in DOMAIN tasks :
        /\ i < k
        /\ tasks[i].st = "failed"
        /\ tasks[k].job = tasks[i].job
        /\ tasks[i].job \in DOMAIN jobs

\* C9: a dispatch at time T sets the job's next_run to T + interval in the
\* same step, and no step of an execution changes any next_run.
C9_RescheduleAtDispatch ==
    [][/\ \A k \in Created :
            /\ tasks'[k].job \in DOMAIN jobs
            /\ jobs'[tasks'[k].job].next_run = now + jobs[tasks'[k].job].interval_seconds
       /\ (Len(tasks') = Len(tasks) /\ tasks' # tasks)
            => \A n \in DOMAIN jobs : n \in DOMAIN jobs' /\ jobs'[n].next_run = jobs[n].next_run]_vars

\* a job dispatched at time 0 whose execution ended later: next_run is still
\* 0 + interval
C9_Witness ==
    \E i \in DOMAIN tasks :
        /\ tasks[i].st \in {"success", "failed"}
        /\ tasks[i].job \in DOMAIN jobs
        /\ jobs[tasks[i].job].task = i
        /\ now > 0
        /\ jobs[tasks[i].job].next_run = jobs[tasks[i].job].interval_seconds

\* C10: registering a job at time T with interval I yields next_run = T + I.
C10_RegisterNextRun ==
    [][\A n \in Names :
         (n \notin DOMAIN jobs /\ n \in DOMAIN jobs')
            => jobs'[n].next_run = now + jobs'[n].interval_seconds]_vars

\* C11: no tick dispatches an entity that is excluded in the store, whatever
\* its own interval and the global interval are.
C11_ExcludedNeverDispatched ==
    [][\A k \in Created :
         ~(/\ tasks'[k].job \in DOMAIN groups
           /\ groups[tasks'[k].job].excluded_from_global)]_vars

\* C12: the interval the scheduler uses for the job of an eligible entity is
\* the interval the policy resolves for it (its own interval when it has one,
\* the global interval otherwise).
C12_SchedulerUsesResolved ==
    \A n \in DOMAIN jobs \cap DOMAIN groups :
        resolve(n).eligible
            => jobs[n].interval_seconds = resolve(n).interval * SecondsPerMinute

\* the interval the store gives entity g: its own when it has one, the global
\* interval otherwise
EffectiveMinutes(g) ==
    IF groups[g].custom_interval_min # <<>>
    THEN groups[g].custom_interval_min[1]
    ELSE get_settings.global_interval_min

\* C13: when the panel is given a global interval m in 1..1440, the stored
\* global interval becomes m, so does the effective interval of every entity
\* without an override, and every entity keeps its override, its exclusion
\* flag and its place in the store (one with an override keeps its effective
\* interval).
C13_GlobalIntervalFrame ==
    [][\A raw \in PanelAnswers(awaiting) :
         (/\ awaiting = <<"set_time_global">>
          /\ IsInt(strip(raw)) /\ int(strip(raw)) \in 1..1440
          /\ _on_text_input(OWNER_ID, raw))
            => /\ get_settings'.global_interval_min = int(strip(raw))
               /\ groups' = groups
               /\ \A g \in DOMAIN groups :
                    IF groups[g].custom_interval_min = <<>>
                    THEN EffectiveMinutes(g)' = int(strip(raw))
                    ELSE EffectiveMinutes(g)' = EffectiveMinutes(g)]_vars

\* the global interval has just been set to 1440 in a store that holds an
\* entity with an override and an entity without one
C13_Witness ==
    /\ reply = Reply("Ustawiono globalny interwal", 1440, "")
    /\ get_settings.global_interval_min = 1440
    /\ \E g, h \in DOMAIN groups :
          /\ groups[g].custom_interval_min # <<>>
          /\ groups[h].custom_interval_min = <<>>
          /\ EffectiveMinutes(h) = 1440
          /\ EffectiveMinutes(g) # 1440

\* C14: a dispatch of an eligible entity at time T sets the next_run of its
\* job to T + the interval the store gives the entity at that time, also when
\* that interval was changed after the job was registered.
C14_DispatchUsesCurrentPolicy ==
    [][\A k \in Created :
         (tasks'[k].job \in DOMAIN groups /\ resolve(tasks'[k].job).eligible)
            => jobs'[tasks'[k].job].next_run
                 = now + resolve(tasks'[k].job).interval * SecondsPerMinute]_vars

\* the text s is no integer of 1..1440
BadMinutes(s) == ~(IsInt(s) /\ int(s) \in 1..1440)

\* C15: a global interval or a per-entity interval that is no integer of
\* 1..1440 is answered by the error message in the same step, and the
\* settings, every entity of the store and the jobs of the scheduler are
\* after the step what they were before it.
C15_InvalidIntervalRejected ==
    [][\A raw \in PolicyAnswers(awaiting) :
         (/\ \/ awaiting = <<"set_time_global">> /\ BadMinutes(strip(raw))
             \/ /\ awaiting = <<"ex_set_time">>
                /\ Len(split(strip(raw), ",", 1)) = 2
                /\ BadMinutes(split(strip(raw), ",", 1)[2])
          /\ _on_text_input(OWNER_ID, raw))
            => /\ settings' = settings
               /\ groups' = groups
               /\ jobs' = jobs /\ order' = order
               /\ reply'.msg \in {"Nieprawidlowa wartosc. Podaj liczbe minut 1-1440.",
                                  "Format: group_id,minuty (1-1440)"}]_vars

\* an interval for B was rejected while B was in the store, with an interval
\* of its own, and had a job
C15_Witness ==
    /\ reply.msg = "Format: group_id,minuty (1-1440)"
    /\ awaiting = <<"ex_set_time">>
    /\ "B" \in DOMAIN groups /\ groups["B"].custom_interval_min # <<>>
    /\ "B" \in DOMAIN jobs

\* C16: a per-entity interval in 1..1440 given for an id that is not in the
\* store is answered by "not found" (set_group_interval returns false) and
\* leaves the store as it was: no entity is created, no override, exclusion
\* flag or global interval changes.
C16_UnknownEntityRejected ==
    [][\A raw \in PanelAnswers(awaiting) :
         LET parts == split(strip(raw), ",", 1) IN
         (/\ awaiting = <<"ex_set_time">>
          /\ Len(parts) = 2
          /\ ~BadMinutes(parts[2])
          /\ join(strip(parts[1])) \notin DOMAIN groups
          /\ _on_text_input(OWNER_ID, raw))
            => /\ ~set_group_interval(groups, join(strip(parts[1])), int(parts[2])).ok
               /\ groups' = groups
               /\ settings' = settings
               /\ reply' = Reply("Nie znaleziono grupy", 0, join(strip(parts[1])))]_vars

\* an interval for B was refused because B is not in the store, which holds
\* A with an interval of its own
C16_Witness ==
    /\ reply = Reply("Nie znaleziono grupy", 0, "B")
    /\ "B" \notin DOMAIN groups
    /\ "A" \in DOMAIN groups /\ groups["A"].custom_interval_min # <<>>

\* C17: from the empty store on, the global interval read from the store is
\* in 1..1440, and the interval of every entity that has one of its own is in
\* 1..1440.
C17_IntervalRange ==
    /\ get_settings.global_interval_min \in 1..1440
    /\ \A g \in DOMAIN groups :
          \/ groups[g].custom_interval_min = <<>>
          \/ groups[g].custom_interval_min[1] \in 1..1440

\* both ends of the range are stored: the global interval 1440 and the
\* interval 1 of A, next to the interval 3 of B
C17_Witness ==
    /\ "global_interval_min" \in DOMAIN settings
    /\ settings.global_interval_min = 1440
    /\ "A" \in DOMAIN groups /\ groups["A"].custom_interval_min = <<1>>
    /\ "B" \in DOMAIN groups /\ groups["B"].custom_interval_min = <<3>>

\* C18: adding a list of ids leaves every entity already in the store as it
\* is (its interval and its exclusion flag included), inserts each new id
\* once however often the list repeats it, reports the number of ids newly
\* inserted, and adding the same list again changes nothing and counts 0.
C18_AddIgnoresDuplicates ==
    [][\A raw \in PanelAnswers(awaiting) :
         LET items == Items(strip(raw))
             ids == {join(items[k]) : k \in DOMAIN items}
         IN  (awaiting = <<"groups_add">> /\ _on_text_input(OWNER_ID, raw))
                => /\ \A g \in DOMAIN groups : g \in DOMAIN groups' /\ groups'[g] = groups[g]
                   /\ DOMAIN groups' = DOMAIN groups \cup ids
                   /\ reply' = Reply("Dodano grup", Cardinality(ids \ DOMAIN groups), "")
                   /\ add_groups(groups', items, 0) = [groups |-> groups', count |-> 0]]_vars

\* a list that held B twice and nothing else was added to a store where B
\* was excluded and had an interval of its own: nothing was inserted and B is
\* as it was
C18_Witness ==
    /\ reply = Reply("Dodano grup", 0, "")
    /\ DOMAIN groups = {"B"}
    /\ groups["B"].excluded_from_global
    /\ groups["B"].custom_interval_min = <<3>>

\* C19: no tick dispatches an entity that has been removed from the store (a
\* job is registered for entities of the store only, so a job whose entity is
\* not in the store is the job of a removed entity).
C19_RemovedNeverDispatched ==
    [][\A k \in Created : tasks'[k].job \in DOMAIN groups]_vars

\* C20: when the exclusion of an entity that has an interval of its own and
\* a job is cleared at time T, the next_run of its job becomes T + that
\* interval, whatever it was before.
C20_ClearExclusionReregisters ==
    [][\A g \in DOMAIN groups \cap DOMAIN groups' :
         (/\ groups[g].excluded_from_global
          /\ ~groups'[g].excluded_from_global
          /\ groups'[g].custom_interval_min # <<>>
          /\ g \in DOMAIN jobs)
            => /\ g \in DOMAIN jobs'
               /\ jobs'[g].next_run
                    = now + groups'[g].custom_interval_min[1] * SecondsPerMinute]_vars

\* C21: updating the policy of a job that is already scheduled (the only
\* update the scheduler has is add_interval_job under the same name) keeps
\* the execution of the job that is running at that time tracked: job.task
\* still names it, so that stop() reaches it.
C21_UpdatePreservesInFlight ==
    [][\A name \in Names, minutes \in MinutesIn :
         (/\ name \in DOMAIN jobs
          /\ jobs[name].task # 0
          /\ tasks[jobs[name].task].st \in Pending
          /\ add_interval_job(name, minutes))
            => jobs'[name].task = jobs[name].task]_vars

\* the step is a failed attempt of execution i, or the retry after its backoff
FailureStep(i) ==
    \/ tasks[i].st = "action" /\ tasks'[i].st \in {"backoff", "failed"}
    \/ tasks[i].st = "backoff" /\ tasks'[i].st = "action"

\* C22: a failed attempt, a retry or the giving up of an execution changes
\* nothing but that execution: every job (next_run, interval), every other
\* execution (its attempts included) and every tick loop are as before; and
\* a tick that happens while an execution is backing off or has given up
\* dispatches exactly the jobs whose next_run is reached.
C22_FailureIsolation ==
    [][/\ \A i \in DOMAIN tasks :
            FailureStep(i)
                => /\ jobs' = jobs /\ order' = order
                   /\ loops' = loops /\ running' = running /\ loop_task' = loop_task
                   /\ Len(tasks') = Len(tasks)
                   /\ \A k \in DOMAIN tasks \ {i} : tasks'[k] = tasks[k]
       /\ (TickStep /\ \E i \in DOMAIN tasks : tasks[i].st \in {"backoff", "failed"})
            => \A n \in DOMAIN jobs :
                 /\ IsDue(n) <=> \E k \in Created : tasks'[k].job = n
                 /\ ~IsDue(n) => jobs'[n] = jobs[n]]_vars

\* an execution of one job has given up after its 5 attempts while the
\* execution of another job succeeded
C22_Witness ==
    \E i, k \in DOMAIN tasks :
        /\ tasks[i].st = "failed"
        /\ tasks[k].job # tasks[i].job
        /\ tasks[k].st = "success"

\* C23: a scheduler that reports itself as running has a live tick loop: the
\* task start() stored in _loop_task has not ended.
C23_RunningHasLiveLoop ==
    running => (loop_task # 0 /\ loops[loop_task].st \in LoopPending)

\* the tick loops that are able to dispatch: the loop tasks that have not
\* ended and whose cancellation was not requested
Able == {l \in DOMAIN loops : loops[l].st \in LoopPending /\ ~loops[l].cancel}

C25_DispatchInNextRunOrder ==
    [][\A k1, k2 \in Created :
          k1 < k2 => jobs[tasks'[k1].job].next_run <= jobs[tasks'[k2].job].next_run]_vars

\* C26: what the scheduler does is decided by UTC instants alone.  A tick
\* dispatches exactly the jobs whose next_run is not after the UTC instant of
\* the tick and sets their next_run to that instant plus their interval, a
\* registration sets next_run to the UTC instant of the call, and a change of
\* the host's local offset changes neither the registry nor the tasks: two
\* runs over the same UTC instants under different offsets dispatch the same
\* jobs and compute the same next_run.
C26_UtcOnly ==
    [][/\ utcoffset' # utcoffset
            => (/\ jobs' = jobs /\ order' = order /\ tasks' = tasks
                /\ loops' = loops /\ running' = running /\ now' = now)
       /\ TickStep
            => \A n \in DOMAIN jobs :
                  IF now >= jobs[n].next_run
                  THEN /\ \E k \in Created : tasks'[k].job = n
                       /\ jobs'[n].next_run = now + jobs[n].interval_seconds
                  ELSE /\ \A k \in Created : tasks'[k].job # n
                       /\ jobs'[n] = jobs[n]
       /\ \A name \in Names, minutes \in MinutesIn :
            add_interval_job(name, minutes) => jobs'[name].next_run = now]_vars

\* under summer time the loop has ticked at the second instant and left alone
\* a job whose next_run lies after that instant in UTC, and before it on the
\* local wall clock
C26_Witness ==
    /\ utcoffset = 3600
    /\ now = 1
    /\ loop_task # 0 /\ loops[loop_task].wake = now + TickSeconds
    /\ \E n \in DOMAIN jobs :
          /\ jobs[n].next_run > now
          /\ jobs[n].next_run <= now + utcoffset
          /\ jobs[n].task # 0

\* C27: the tick loop never waits for an execution.  A tick made while an
\* execution is in its action or in a backoff sleep dispatches every due job,
\* leaves the executions alone and sleeps for one second only.
C27_LoopNeverWaits ==
    [][\A l \in DOMAIN loops :
         (/\ loops[l].wake = 0 /\ loops'[l].wake > 0
          /\ \E i \in DOMAIN tasks : tasks[i].st \in {"action", "backoff"})
            => /\ loops'[l].wake = now + TickSeconds
               /\ \A n \in DOMAIN jobs : IsDue(n) => \E k \in Created : tasks'[k].job = n
               /\ \A i \in DOMAIN tasks : tasks'[i] = tasks[i]]_vars

\* the instant at which task i was dispatched, for the latest task of its job
DispatchedAt(i) == jobs[tasks[i].job].next_run - jobs[tasks[i].job].interval_seconds

\* an execution of one job is in its backoff sleep and another job was
\* dispatched at a later instant
C27_Witness ==
    \E i, k \in DOMAIN tasks :
        /\ tasks[i].job # tasks[k].job
        /\ jobs[tasks[i].job].task = i /\ jobs[tasks[k].job].task = k
        /\ tasks[i].st = "backoff"
        /\ DispatchedAt(k) > DispatchedAt(i)

\* the last instant the clock is observed at
LastInstant == CHOOSE t \in Instants : \A u \in Instants : u <= t

\* job n is due while l is the loop of a running scheduler and has its next
\* tick within the observed instants
DueUnder(n, l) ==
    IF running /\ loop_task = l /\ l \in DOMAIN loops /\ n \in DOMAIN jobs
    THEN loops[l].wake <= LastInstant /\ IsDue(n)
    ELSE FALSE

\* job n has been dispatched and l is still the loop of the running scheduler
DispatchedUnder(n, l) ==
    IF running /\ loop_task = l /\ n \in DOMAIN jobs
    THEN ~IsDue(n) /\ jobs[n].task # 0
    ELSE FALSE

\* the tick is held back by the bound on the tasks of one behaviour
NoRoom == Len(tasks) + Len(DueSeq) > MaxTasks

\* C28: a job registered while the scheduler runs is picked up by the running
\* loop: a registration changes no other job, and a job that is due while
\* loop l is the loop of a running scheduler, with its next tick within the
\* observed instants, is eventually dispatched by that loop, unless the
\* scheduler is stopped first or the bound on the tasks is met.
C28_DynamicRegistration ==
    /\ [][\A name \in Names, minutes \in MinutesIn :
            add_interval_job(name, minutes)
                => \A n \in DOMAIN jobs \ {name} : jobs'[n] = jobs[n]]_vars
    /\ \A n \in Names, l \in 1..MaxCalls :
          DueUnder(n, l) ~> (DispatchedUnder(n, l) \/ ~running \/ NoRoom)

\* one loop has dispatched two jobs at different instants: the later one was
\* registered after the loop's first tick and needed no restart
C28_Witness ==
    /\ running /\ Len(loops) = 1
    /\ \E i, k \in DOMAIN tasks :
          /\ tasks[i].job # tasks[k].job
          /\ jobs[tasks[i].job].task = i /\ jobs[tasks[k].job].task = k
          /\ DispatchedAt(k) > DispatchedAt(i)

\* C29: the next_run of a registered job is changed, apart from a
\* registration under its name, only by a tick that dispatches the job, and
\* every such change moves it strictly forward.  Completions, failures,
\* retries, cancellations, stop(), start() and the clock leave it alone.
C29_NextRunMonotone ==
    [][\A n \in DOMAIN jobs :
         (/\ ~(\E minutes \in MinutesIn : add_interval_job(n, minutes))
          /\ jobs'[n].next_run # jobs[n].next_run)
            => /\ TickStep
               /\ \E k \in Created : tasks'[k].job = n
               /\ jobs'[n].next_run > jobs[n].next_run]_vars

\* a job was dispatched, its execution has failed for good and the scheduler
\* was stopped: its next_run is still the one the dispatch gave it
C29_Witness ==
    \E i \in DOMAIN tasks :
        /\ tasks[i].st = "failed"
        /\ jobs[tasks[i].job].task = i
        /\ ~running /\ stop_requested
        /\ jobs[tasks[i].job].next_run > now

\* the minutes the interval is computed for: those around zero and around
\* both ends of the valid ones, 1 to 1440
MinutesRange == ((0 - 2)..(MinMinutes + 1)) \cup ((MaxMinutes - 1)..(MaxMinutes + 1))

\* C30: for every integer minutes, zero and negative ones included, the
\* interval of a job is the larger of 60 seconds and minutes * 60 seconds: a
\* registration stores that interval, every registered job has an interval of
\* at least 60 seconds, and minutes from 1 to 1440 give exactly minutes * 60.
C30_IntervalFloor ==
    /\ [](/\ \A m \in MinutesRange :
               /\ IntervalSeconds(m) >= 60
               /\ m * 60 >= 60 => IntervalSeconds(m) = m * 60
               /\ m * 60 < 60 => IntervalSeconds(m) = 60
               /\ m \in MinMinutes..MaxMinutes => IntervalSeconds(m) = m * 60
          /\ \A n \in DOMAIN jobs : jobs[n].interval_seconds >= 60)
    /\ [][\A name \in Names, minutes \in MinutesIn :
            add_interval_job(name, minutes)
                => jobs'[name].interval_seconds
                     = (IF minutes * 60 > 60 THEN minutes * 60 ELSE 60)]_vars

\* one job holds the floor of 60 seconds and another a longer interval
C30_Witness ==
    \E n, m \in DOMAIN jobs :
        jobs[n].interval_seconds = 60 /\ jobs[m].interval_seconds = 2 * 60

\* loop l makes a tick: an iteration that goes through the registry and
\* sleeps
TickOf(l) == loops[l].wake = 0 /\ loops'[l].wake > 0

\* C31 as stated: a job is never dispatched in two consecutive ticks: a tick
\* of loop l does not dispatch a job that the previous tick of l dispatched.
C31_NeverInConsecutiveTicks ==
    [][\A l \in DOMAIN loops, n \in DOMAIN jobs :
         (/\ TickOf(l)
          /\ jobs[n].task # 0
          /\ jobs[n].next_run - jobs[n].interval_seconds = loops[l].now)
            => \A k \in Created : tasks'[k].job # n]_vars

\* C31: no catch-up burst.  A tick dispatches every due job exactly once,
\* however long it is overdue, and leaves its next_run strictly in the future,
\* at the instant of the tick plus the interval; and a job that was dispatched
\* is dispatched again only by a tick at least its interval later.
C31_NoCatchUpBurst ==
    [][TickStep
         => \A n \in DOMAIN jobs :
              /\ Cardinality({k \in Created : tasks'[k].job = n})
                   = (IF now >= jobs[n].next_run THEN 1 ELSE 0)
              /\ now >= jobs[n].next_run
                   => /\ jobs'[n].next_run = now + jobs[n].interval_seconds
                      /\ jobs'[n].next_run > now
              /\ (now >= jobs[n].next_run /\ jobs[n].task # 0)
                   => now - (jobs[n].next_run - jobs[n].interval_seconds)
                        >= jobs[n].interval_seconds]_vars

\* after a long pause a job of interval 60 that was overdue by two intervals
\* or more has been dispatched by the tick, once
C31_Witness ==
    /\ calls = 0
    /\ now > LastInstant
    /\ Len(tasks) = 1
    /\ jobs[tasks[1].job].interval_seconds = MinIntervalSeconds
    /\ jobs[tasks[1].job].task = 1
    /\ jobs[tasks[1].job].next_run = now + MinIntervalSeconds

\* the users the panel takes for administrators
IsAdmin(uid) == uid \in ADMIN_USERS \/ uid = OWNER_ID

\* C32: a text of an administrator is applied to an awaited prompt only when
\* that administrator selected it: the last selection among administrators
\* was the sender's own.
C32_OwnPromptOnly ==
    [][\A uid \in DeskUsers, raw \in PanelAnswers(awaiting) :
         (/\ IsAdmin(uid) /\ IsAdmin(callback_user)
          /\ awaiting # <<>>
          /\ _on_text_input(uid, raw))
            => callback_user = uid]_vars

\* C33: a text message of a user who is neither in ADMIN_USERS nor the owner
\* changes neither the settings, nor the entities, nor the awaited prompt,
\* whatever prompt is awaited.
C33_OnlyAdminsChangePolicy ==
    [][\A uid \in DeskUsers, raw \in PanelAnswers(awaiting) :
         (uid \notin ADMIN_USERS /\ uid # OWNER_ID /\ _on_text_input(uid, raw))
            => (settings' = settings /\ groups' = groups /\ awaiting' = awaiting)]_vars

\* a prompt for the global interval is awaited and the store holds entities:
\* a state in which a text would change the policy
C33_Witness ==
    /\ awaiting = <<"set_time_global">>
    /\ DOMAIN groups # {}
    /\ callback_user = OWNER_ID

\* C34: a callback query of a user who is neither administrator nor owner
\* neither sets nor clears the awaited prompt.
C34_CallbackOfAdminsOnly ==
    [][\A uid \in DeskUsers, data \in AdminAction :
         (~IsAdmin(uid) /\ _on_callback(uid, data)) => awaiting' = awaiting]_vars

\* the text is one the prompt a refuses: an info line that has not four
\* fields, minutes that are no integer of 1..1440, a line for an entity's
\* interval without a comma or with such minutes
Rejected(a, text) ==
    CASE a = <<"set_info">>        -> Len(split(text, ",", 3)) # 4
      [] a = <<"set_time_global">> -> BadMinutes(text)
      [] a = <<"ex_set_time">>     -> IF Len(split(text, ",", 1)) # 2 THEN TRUE
                                      ELSE BadMinutes(split(text, ",", 1)[2])
      [] OTHER                     -> FALSE

Listed(items) == {join(items[k]) : k \in DOMAIN items}

\* the number of items of the list whose id is in the dict g
Present(g, items) == Cardinality({k \in DOMAIN items : join(items[k]) \in DOMAIN g})

\* C36 as stated: set_excluded and set_group_interval change only the named
\* field of the entities they find.
C36_OnlyNamedField ==
    /\ \A items \in StoreItems, excluded \in BOOLEAN :
         LET r == set_excluded(groups, items, excluded, 0) IN
         \A k \in DOMAIN groups \cap Listed(items) :
            r.groups[k] = [groups[k] EXCEPT !.excluded_from_global = excluded]
    /\ \A gid \in DOMAIN groups, minutes \in StoreMinutes :
         set_group_interval(groups, gid, minutes).groups[gid]
            = [groups[gid] EXCEPT !.custom_interval_min = <<minutes>>]

\* C36: the set of the known ids changes only through add_groups and
\* del_groups.  set_excluded and set_group_interval create no entity, skip an
\* id that is not in the store and leave every other entity as it is; of an
\* entity they find they change the named field and the stamp updated_at,
\* nothing else; set_excluded returns the number of listed ids it found and
\* set_group_interval whether it found the id.
C36_EntitySetFrame ==
    /\ \A items \in StoreItems, excluded \in BOOLEAN :
         LET r == set_excluded(groups, items, excluded, 0) IN
         /\ DOMAIN r.groups = DOMAIN groups
         /\ r.count = Present(groups, items)
         /\ \A k \in DOMAIN groups :
              r.groups[k] = IF k \in Listed(items)
                            THEN [groups[k] EXCEPT !.excluded_from_global = excluded,
                                                   !.updated_at = stamp_clock]
                            ELSE groups[k]
    /\ \A gid \in StoreIds, minutes \in StoreMinutes :
         LET r == set_group_interval(groups, gid, minutes) IN
         /\ DOMAIN r.groups = DOMAIN groups
         /\ r.ok = (gid \in DOMAIN groups)
         /\ \A k \in DOMAIN groups :
              r.groups[k] = IF k = gid
                            THEN [groups[k] EXCEPT !.custom_interval_min = <<minutes>>,
                                                   !.updated_at = stamp_clock]
                            ELSE groups[k]

\* an entity was excluded and given an interval after it was created, and
\* the other id is not in the store
C36_Witness ==
    /\ DOMAIN groups = {"A"}
    /\ groups["A"].excluded_from_global
    /\ groups["A"].custom_interval_min = <<3>>
    /\ groups["A"].updated_at > groups["A"].created_at

\* C37: once run_with_shutdown is over, whether it returned or an error left
\* it, every registered cleanup callback has been called exactly once, in the
\* order of registration.
C37_CleanupRunsToTheEnd ==
    closer.pc \in {"returned", "raised"}
        => closer.invoked = [k \in 1..Len(closer.cleanups) |-> k]

\* C38: when run is over, whatever start() had started is stopped: the
\* application and its updater do not run, the scheduler does not run,
\* is_running is false, and the scheduler was stopped before the application.
C38_StartedIsStopped ==
    bot.pc = "exited"
        => /\ ~bot.is_running
           /\ bot.application # "running"
           /\ bot.updater \notin BotModes
           /\ ~bot.scheduler
           /\ bot.stopped \in {<<>>, <<"scheduler">>, <<"scheduler", "application">>}

====
